---- MODULE Spec2Model ----
(***************************************************************************)
(* Model of ml3d/datasets/augment/augmentation.py: the semantic            *)
(* segmentation augmentations (normalize, rotate, scale, noise, augment)   *)
(* and the object detection augmentations (ObjectRangeFilter,              *)
(* ObjectSample).                                                          *)
(*                                                                         *)
(* Numeric arrays are exact rationals: an array is a record                *)
(* [pts, den] standing for the rows pts divided by the common denominator  *)
(* den, kept in lowest terms.  den = 0 stands for the all-NaN array that   *)
(* numpy produces when a zero-extent cloud is divided by its extent.       *)
(* Random draws are inputs chosen with \E from small sets: angles are      *)
(* quarter turns, so every rotation matrix has integer entries.            *)
(***************************************************************************)
EXTENDS Integers, Sequences, FiniteSets, TLC

VARIABLES
    op,     \* the entry point called
    pc,     \* the position in it: "start", ..., "done", or "KeyError" once it raised
    data,   \* the caller's sample (a dict), as the call sees and mutates it
    input,  \* the sample as it was when the call began
    cfg,    \* the other arguments of the call
    ret,    \* the value returned
    ran,    \* augment: the transforms called so far
    draws,  \* the random numbers drawn by each transform
    loc,    \* ObjectSample: points, bboxes, sampled, sampled_num_dict, loop index
    calls   \* ObjectSample: the calls of sample_class so far, with their results

vars == <<op, pc, data, input, cfg, ret, ran, draws, loc, calls>>

(***************************************************************************)
(* Bounds of the model.                                                    *)
(***************************************************************************)
MaxPts == 2

MaxBoxes == 2

MaxTarget == 3

(***************************************************************************)
(* Python values.                                                          *)
(***************************************************************************)
None == [none |-> TRUE]

IsNone(v) == "none" \in DOMAIN v

\* dict.get(key, default)
Get(d, key, default) == IF key \in DOMAIN d THEN d[key] ELSE default

\* the dict d with d[key] = v
Put(d, key, v) == [k \in DOMAIN d \cup {key} |-> IF k = key THEN v ELSE d[k]]

\* the dict full cut down to the keys K
Restrict(full, K) == [k \in K |-> full[k]]

EmptyDict == <<>>

(***************************************************************************)
(* Exact arithmetic on arrays.                                             *)
(***************************************************************************)
Abs(n) == IF n < 0 THEN -n ELSE n

RECURSIVE Gcd(_, _)
Gcd(a, b) == IF b = 0 THEN Abs(a) ELSE Gcd(b, a % Abs(b))

RECURSIVE GcdSeq(_, _)
GcdSeq(s, g) == IF s = <<>> THEN g ELSE GcdSeq(Tail(s), Gcd(g, Head(s)))

RECURSIVE GcdRows(_, _)
GcdRows(rows, g) == IF rows = <<>> THEN g ELSE GcdRows(Tail(rows), GcdSeq(Head(rows), g))

RECURSIVE SumSeq(_)
SumSeq(s) == IF s = <<>> THEN 0 ELSE Head(s) + SumSeq(Tail(s))

Column(rows, j) == [i \in 1..Len(rows) |-> rows[i][j]]

Width(rows) == Len(rows[1])

MaxOf(S) == CHOOSE m \in S : \A n \in S : n <= m

MinOf(S) == CHOOSE m \in S : \A n \in S : m <= n

Range(s) == {s[i] : i \in 1..Len(s)}

NaN(rows) == [pts |-> [i \in 1..Len(rows) |-> [j \in 1..Width(rows) |-> 0]], den |-> 0]

\* lowest terms, positive denominator; one representative for the NaN array
Arr(rows, den) ==
    IF den = 0 THEN NaN(rows)
    ELSE LET g == GcdRows(rows, den)
             s == IF den < 0 THEN -1 ELSE 1
         IN [pts |-> [i \in 1..Len(rows) |-> [j \in 1..Width(rows) |-> (s * rows[i][j]) \div g]],
             den |-> (s * den) \div g]

\* a -= a.mean(0)
SubMean(a) ==
    LET n == Len(a.pts)
    IN Arr([i \in 1..n |-> [j \in 1..Width(a.pts) |->
                n * a.pts[i][j] - SumSeq(Column(a.pts, j))]], a.den * n)

\* (a.max(0) - a.min(0)).max(), in units of 1 / a.den
Extent(a) ==
    MaxOf({MaxOf(Range(Column(a.pts, j))) - MinOf(Range(Column(a.pts, j))) :
             j \in 1..Width(a.pts)})

\* a /= (a.max(0) - a.min(0)).max(); a zero extent gives 0/0 = nan everywhere
DivExtent(a) == IF a.den = 0 \/ Extent(a) = 0 THEN NaN(a.pts) ELSE Arr(a.pts, Extent(a))

\* a -= b for an integer b
SubScalar(a, b) ==
    Arr([i \in 1..Len(a.pts) |-> [j \in 1..Width(a.pts) |-> a.pts[i][j] - b * a.den]], a.den)

\* a /= s for an integer s
DivScalar(a, s) == IF s = 0 THEN NaN(a.pts) ELSE Arr(a.pts, a.den * s)

\* np.matmul(a, R)
MatMul(a, R) ==
    Arr([i \in 1..Len(a.pts) |-> [j \in 1..Len(R) |->
            SumSeq([k \in 1..Len(R) |-> a.pts[i][k] * R[k][j]])]], a.den)

\* a * s for a per-axis factor s
MulAxes(a, s) ==
    Arr([i \in 1..Len(a.pts) |-> [j \in 1..Width(a.pts) |-> a.pts[i][j] * s[j]]], a.den)

\* a + n * level for an integer matrix n and a rational level
AddScaled(a, n, level) ==
    Arr([i \in 1..Len(a.pts) |-> [j \in 1..Width(a.pts) |->
            a.pts[i][j] * level.den + n[i][j] * level.num * a.den]], a.den * level.den)

(***************************************************************************)
(* SemsegAugmentation.normalize                                            *)
(***************************************************************************)
NormalizePoints(pcl, cfg_p) ==
    LET a == IF Get(cfg_p, "recentering", FALSE) THEN SubMean(pcl) ELSE pcl
    IN IF Get(cfg_p, "method", "linear") = "linear" THEN DivExtent(SubMean(a)) ELSE a

NormalizeFeat(feat, cfg_f) ==
    LET a == IF Get(cfg_f, "recentering", FALSE) THEN SubMean(feat) ELSE feat
    IN IF Get(cfg_f, "method", "linear") = "linear"
       THEN DivScalar(SubScalar(a, Get(cfg_f, "bias", 0)), Get(cfg_f, "scale", 1))
       ELSE a

\* data['feat'] is evaluated whenever 'feat' is a key of cfg
FeatLookupFails(d, c) == "feat" \in DOMAIN c /\ "feat" \notin DOMAIN d

\* the sample after the call, and whether the call raised KeyError
Normalize(d, c) ==
    LET d1 == IF "points" \in DOMAIN c
              THEN Put(d, "point", NormalizePoints(d["point"], c["points"]))
              ELSE d
    IN IF FeatLookupFails(d1, c) THEN [err |-> TRUE, data |-> d1]
       ELSE IF "feat" \in DOMAIN c /\ ~IsNone(d1["feat"])
            THEN [err |-> FALSE, data |-> Put(d1, "feat", NormalizeFeat(d1["feat"], c["feat"]))]
            ELSE [err |-> FALSE, data |-> d1]

(***************************************************************************)
(* SemsegAugmentation.rotate                                               *)
(***************************************************************************)
Eye(n) == [i \in 1..n |-> [j \in 1..n |-> IF i = j THEN 1 ELSE 0]]

\* cosine and sine of k quarter turns
Cos4(k) == <<1, 0, -1, 0>>[(k % 4) + 1]

Sin4(k) == <<0, 1, 0, -1>>[(k % 4) + 1]

\* axis-angle to matrix: cos(a) I + sin(a) [u]x + (1 - cos(a)) u u^T
Create3DRotations(u, alpha) ==
    LET c == Cos4(alpha)
        s == Sin4(alpha)
        K == << <<0, -u[3], u[2]>>, <<u[3], 0, -u[1]>>, <<-u[2], u[1], 0>> >>
    IN [i \in 1..3 |-> [j \in 1..3 |->
            c * Eye(3)[i][j] + s * K[i][j] + (1 - c) * u[i] * u[j]]]

\* the draws of rotate: theta, phi, alpha in quarter turns
\* (phi = (rand() - 0.5) * pi lies in [-pi/2, pi/2))
RotateDraws == [theta : 0..3, phi : {-1, 0}, alpha : 0..1]

NoDraw == [theta |-> 0, phi |-> 0, alpha |-> 0]

RotateAllMatrix(dr) ==
    Create3DRotations(<<Cos4(dr.theta) * Cos4(dr.phi), Sin4(dr.theta) * Cos4(dr.phi),
                        Sin4(dr.phi)>>, dr.alpha)

RotateVerticalMatrix(dr) ==
    << <<Cos4(dr.theta), -Sin4(dr.theta), 0>>,
       <<Sin4(dr.theta), Cos4(dr.theta), 0>>,
       <<0, 0, 1>> >>

InitialRotationZeros(pcl) == [i \in 1..Width(pcl.pts) |-> [j \in 1..Width(pcl.pts) |-> 0]]

\* R = np.eye(pc.shape[1])
InitialRotation(pcl) == Eye(Width(pcl.pts))

RotationMatrix(pcl, c, dr) ==
    LET method == Get(c, "method", "None")
    IN IF method = "vertical" THEN RotateVerticalMatrix(dr)
       ELSE IF method = "all" THEN RotateAllMatrix(dr)
       ELSE InitialRotation(pcl)

Rotate(pcl, c, dr) == MatMul(pcl, RotationMatrix(pcl, c, dr))

\* the draws rotate makes under configuration c
RotateDrawsFor(c) ==
    LET method == Get(c, "method", "None")
    IN IF method = "vertical" THEN {dr \in RotateDraws : dr.phi = 0 /\ dr.alpha = 0}
       ELSE IF method = "all" THEN RotateDraws
       ELSE {NoDraw}

(***************************************************************************)
(* SemsegAugmentation.scale                                                *)
(***************************************************************************)
\* rand() * (max_s - min_s) + min_s for rand() in [0, 1), at the integers
ScaleFactors(c) ==
    LET min_s == Get(c, "min_s", 1)
        max_s == Get(c, "max_s", 1)
    IN IF min_s < max_s THEN min_s..(max_s - 1) ELSE {min_s}

ScaleDrawsFor(c) ==
    IF Get(c, "scale_anisotropic", FALSE)
    THEN [1..3 -> ScaleFactors(c)]
    ELSE {<<s, s, s>> : s \in ScaleFactors(c)}

Scale(pcl, c, s) == MulAxes(pcl, s)

(***************************************************************************)
(* SemsegAugmentation.noise                                                *)
(***************************************************************************)
NoiseLevelDefault == [num |-> 1, den |-> 1000]

\* rows of randn draws, at a few integer values
NoiseRows == {<<0, 0, 0>>, <<1, 0, -1>>}

NoiseDrawsFor(pcl) == [1..Len(pcl.pts) -> NoiseRows]

Noise(pcl, c, n) == AddScaled(pcl, n, Get(c, "noise_level", NoiseLevelDefault))

(***************************************************************************)
(* SemsegAugmentation.augment: four "if key in cfg" statements in a row.   *)
(***************************************************************************)
AugmentOrderSwapped == <<"normalize", "scale", "rotate", "noise">>

\* the transform of the i-th if statement
AugmentOrder == <<"normalize", "rotate", "scale", "noise">>

\* the program position before the i-th if statement, and after the last
AugmentPc == <<"if_1", "if_2", "if_3", "if_4", "done">>

NoDraws == [normalize |-> <<>>, rotate |-> NoDraw, scale |-> <<1, 1, 1>>, noise |-> <<>>]

DrawsFor(key, c, pcl) ==
    CASE key = "normalize" -> {<<>>}
      [] key = "rotate" -> RotateDrawsFor(c)
      [] key = "scale" -> ScaleDrawsFor(c)
      [] key = "noise" -> NoiseDrawsFor(pcl)

\* the call made by the if statement of transform key, on sample d
Transform(key, d, c, dr) ==
    CASE key = "normalize" -> Normalize(d, c)
      [] key = "rotate" -> [err |-> FALSE, data |-> Put(d, "point", Rotate(d["point"], c, dr))]
      [] key = "scale" -> [err |-> FALSE, data |-> Put(d, "point", Scale(d["point"], c, dr))]
      [] key = "noise" -> [err |-> FALSE, data |-> Put(d, "point", Noise(d["point"], c, dr))]

(***************************************************************************)
(* Object detection: boxes, and the collaborators of ObjdetAugmentation.   *)
(* A box is [label_class, x, y, z, w, h, l, r, points_inside_box]: centre, *)
(* BEV width and height, vertical length, rotation, donated points.        *)
(***************************************************************************)
Box(c, x, y, pts) ==
    [label_class |-> c, x |-> x, y |-> y, z |-> 0, w |-> 2, h |-> 2, l |-> 2, r |-> 0,
     points_inside_box |-> pts]

\* box.to_xyzwhlr()
ToXyzwhlr(box) == <<box.x, box.y, box.z, box.w, box.h, box.l, box.r>>

\* in_range_bev(bev_range, box): the BEV footprint overlaps the rectangle
\* [x_min, y_min, x_max, y_max]
InRangeBev(bev_range, b) ==
    /\ 2 * b[1] + b[4] > 2 * bev_range[1]
    /\ 2 * b[2] + b[5] > 2 * bev_range[2]
    /\ 2 * b[1] - b[4] < 2 * bev_range[3]
    /\ 2 * b[2] - b[5] < 2 * bev_range[4]

\* the point-inside predicate of a box
PointInBox(p, box) ==
    /\ 2 * Abs(p[1] - box.x) <= box.w
    /\ 2 * Abs(p[2] - box.y) <= box.h
    /\ 2 * Abs(p[3] - box.z) <= box.l

InAnyBox(p, boxes) == \E i \in 1..Len(boxes) : PointInBox(p, boxes[i])

\* remove_points_in_boxes(points, boxes)
RemovePointsInBoxes(points, boxes) == SelectSeq(points, LAMBDA p : ~InAnyBox(p, boxes))

BoxesCollide(a, b) ==
    /\ 2 * Abs(a.x - b.x) < a.w + b.w
    /\ 2 * Abs(a.y - b.y) < a.h + b.h

RECURSIVE Pick(_, _, _)
\* the boxes of pool at the indices I, in pool order
Pick(pool, I, i) ==
    IF i > Len(pool) THEN <<>>
    ELSE (IF i \in I THEN <<pool[i]>> ELSE <<>>) \o Pick(pool, I, i + 1)

\* sample_class(class_name, num, existing_boxes, donor_pool): the lists it may
\* return: at most num distinct donors, none colliding with an existing box or
\* with another donor of the list
SampleClass(class_name, num, existing, pool) ==
    {Pick(pool, I, 1) : I \in {J \in SUBSET (1..Len(pool)) :
        /\ Cardinality(J) <= num
        /\ \A i \in J : \A k \in 1..Len(existing) : ~BoxesCollide(pool[i], existing[k])
        /\ \A i \in J : \A j \in J : i # j => ~BoxesCollide(pool[i], pool[j])}}

RECURSIVE Flatten(_)
Flatten(ss) == IF ss = <<>> THEN <<>> ELSE Head(ss) \o Flatten(Tail(ss))

(***************************************************************************)
(* ObjdetAugmentation.ObjectRangeFilter                                    *)
(***************************************************************************)
BevIndicesFirstFour == <<0, 1, 2, 3>>

\* pcd_range[[0, 1, 3, 4]]
BevIndices == <<0, 1, 3, 4>>

BevRange(pcd_range) == [i \in 1..4 |-> pcd_range[BevIndices[i] + 1]]

ObjectRangeFilter(d, pcd_range) ==
    [point |-> d["point"],
     bbox_objs |-> SelectSeq(d["bbox_objs"],
                             LAMBDA box : InRangeBev(BevRange(pcd_range), ToXyzwhlr(box))),
     calib |-> d["calib"]]

(***************************************************************************)
(* ObjdetAugmentation.ObjectSample                                         *)
(***************************************************************************)
\* np.sum([n == class_name for n in gt_labels_3d])
Existing(bbox_objs, class_name) ==
    Cardinality({i \in 1..Len(bbox_objs) : bbox_objs[i].label_class = class_name})

SampledNumIgnoringExisting(max_sample_num, existing) == max_sample_num

\* np.round(rate * int(max_sample_num - existing)) with rate = 1.0
SampledNum(max_sample_num, existing) == max_sample_num - existing

\* sampled_num_dict, in the key order of sample_dict
SampledNumDict(d, sample_dict) ==
    [i \in 1..Len(sample_dict) |->
        [name |-> sample_dict[i].name,
         num |-> SampledNum(sample_dict[i].num, Existing(d["bbox_objs"], sample_dict[i].name))]]

SamplerExistingOriginal(d, bboxes) == d["bbox_objs"]

\* the existing-boxes argument of sample_class
SamplerExisting(d, bboxes) == bboxes

ExtendBoxesInPlace(d, bboxes, sampled_cls) ==
    [data |-> Put(d, "bbox_objs", bboxes \o sampled_cls), bboxes |-> bboxes \o sampled_cls]

\* bboxes = bboxes + sampled_cls: a new list, the caller's list is left alone
ExtendBoxes(d, bboxes, sampled_cls) == [data |-> d, bboxes |-> bboxes \o sampled_cls]

CollisionBoxesAll(sampled, bboxes) == bboxes

\* the boxes handed to remove_points_in_boxes
CollisionBoxes(sampled, bboxes) == sampled

MergePointsBehind(sampled_points, points) == points \o sampled_points

\* np.concatenate([sampled_points, points], axis=0)
MergePoints(sampled_points, points) == sampled_points \o points

\* np.concatenate([box.points_inside_box for box in sampled], axis=0)
SampledPoints(sampled) == Flatten([i \in 1..Len(sampled) |-> sampled[i].points_inside_box])

(***************************************************************************)
(* Inputs.                                                                 *)
(***************************************************************************)
PointUniverse == {<<2, 0, 0>>, <<0, 4, 2>>}

SemsegClouds == UNION {{Arr(rows, 1) : rows \in [1..n -> PointUniverse]} : n \in 1..MaxPts}

FeatFor(n) == Arr([i \in 1..n |-> <<2 * i + 1>>], 1)

\* a sample whose feat entry is missing, None, or an array with a row per point
SemsegSample(pcl, f) ==
    CASE f = "absent" -> [point |-> pcl]
      [] f = "none" -> [point |-> pcl, feat |-> None]
      [] f = "array" -> [point |-> pcl, feat |-> FeatFor(Len(pcl.pts))]

SemsegSamples == {SemsegSample(pcl, f) : pcl \in SemsegClouds, f \in {"absent", "none", "array"}}

PointsCfgs ==
    {Restrict([recentering |-> TRUE, method |-> m], K) :
        m \in {"linear", "other"}, K \in SUBSET {"recentering", "method"}}

FeatCfgs ==
    {EmptyDict, [recentering |-> TRUE, method |-> "other"], [bias |-> 1, scale |-> 2]}

NormalizeCfgs ==
    {Restrict(full, K) : full \in [points : PointsCfgs, feat : FeatCfgs],
                         K \in SUBSET {"points", "feat"}}

RotateCfgs == {EmptyDict, [method |-> "vertical"], [method |-> "all"], [method |-> "horizontal"]}

ScaleCfgs == {EmptyDict, [min_s |-> 1, max_s |-> 3],
              [scale_anisotropic |-> TRUE, min_s |-> 1, max_s |-> 3]}

NoiseCfgs == {EmptyDict, [noise_level |-> [num |-> 1, den |-> 1]]}

AugmentCfgs ==
    {Restrict(full, K) :
        full \in [normalize : {[points |-> EmptyDict], [feat |-> EmptyDict]},
                  rotate : {[method |-> "vertical"], [method |-> "all"]},
                  scale : {[scale_anisotropic |-> TRUE, min_s |-> 1, max_s |-> 3]},
                  noise : {EmptyDict}],
        K \in SUBSET {"normalize", "rotate", "scale", "noise"}}

Classes == {"Car", "Ped"}

SceneBoxUniverse == {Box("Car", 0, 0, <<>>), Box("Car", 4, 0, <<>>), Box("Ped", 8, 0, <<>>)}

InjectiveSeqs(S, n) == {s \in [1..n -> S] : \A i, j \in 1..n : i # j => s[i] # s[j]}

SceneBoxLists == UNION {InjectiveSeqs(SceneBoxUniverse, n) : n \in 0..MaxBoxes}

\* the donor database: a donor overlapping a scene car, two donors of different
\* classes overlapping each other, and a free one
DonorDb ==
    [Car |-> <<Box("Car", 1, 0, <<<<1, 0, 0>>>>), Box("Car", 12, 0, <<<<12, 0, 0>>, <<13, 0, 0>>>>)>>,
     Ped |-> <<Box("Ped", 12, 1, <<<<12, 1, 0>>>>), Box("Ped", 16, 0, <<<<16, 0, 0>>>>)>>]

DonorDbs == {Restrict(DonorDb, K) : K \in SUBSET Classes}

SampleDicts ==
    UNION {{[i \in 1..n |-> [name |-> names[i], num |-> nums[i]]] :
                names \in InjectiveSeqs(Classes, n), nums \in [1..n -> 0..MaxTarget]} :
           n \in 0..Cardinality(Classes)}

SceneClouds ==
    {<<>>, <<<<0, 0, 0>>, <<12, 0, 0>>>>, <<<<16, 1, 0>>, <<20, 0, 0>>, <<12, 1, 0>>>>,
     <<<<13, 1, 0>>, <<5, 0, 0>>>>}

DetectionSamples ==
    {[point |-> p, bbox_objs |-> b, calib |-> "calib"] : p \in SceneClouds, b \in SceneBoxLists}

\* [x_min, y_min, z_min, x_max, y_max, z_max]
PcdRanges == {<<-2, -2, -1, 6, 2, 1>>, <<3, -2, -3, 20, 2, 3>>, <<-9, 3, -1, 9, 9, 1>>}

NoReturn == [noreturn |-> TRUE]

NoLocals == [points |-> <<>>, bboxes |-> <<>>, sampled |-> <<>>, sampled_num_dict |-> <<>>, k |-> 0]

(***************************************************************************)
(* The state after the caller has built the arguments of one call.         *)
(***************************************************************************)
InitCall(o, d, c) ==
    /\ op = o
    /\ data = d
    /\ input = d
    /\ cfg = c
    /\ pc = IF o = "augment" THEN AugmentPc[1] ELSE "start"
    /\ ret = NoReturn
    /\ ran = <<>>
    /\ draws = NoDraws
    /\ loc = NoLocals
    /\ calls = <<>>

Init ==
    \/ \E d \in SemsegSamples, c \in NormalizeCfgs : InitCall("normalize", d, c)
    \/ \E d \in SemsegSamples, c \in RotateCfgs : InitCall("rotate", d, c)
    \/ \E d \in SemsegSamples, c \in AugmentCfgs : InitCall("augment", d, c)
    \/ \E d \in DetectionSamples, r \in PcdRanges, K \in {{}, {"label"}} :
          InitCall("ObjectRangeFilter",
                   [k \in DOMAIN d \cup K |-> IF k \in K THEN "labels" ELSE d[k]],
                   [pcd_range |-> r])
    \/ \E d \in DetectionSamples, db \in DonorDbs, sd \in SampleDicts :
          InitCall("ObjectSample", d, [db_boxes_dict |-> db, sample_dict |-> sd])

(***************************************************************************)
(* Actions.                                                                *)
(***************************************************************************)
\* normalize(data, cfg)
NormalizeCall ==
    /\ op = "normalize" /\ pc = "start"
    /\ LET r == Normalize(data, cfg)
       IN /\ data' = r.data
          /\ pc' = IF r.err THEN "KeyError" ELSE "done"
          /\ ret' = IF r.err THEN NoReturn ELSE r.data
    /\ UNCHANGED <<op, input, cfg, ran, draws, loc, calls>>

\* rotate(data['point'], cfg)
RotateCall ==
    /\ op = "rotate" /\ pc = "start"
    /\ \E dr \in RotateDrawsFor(cfg) :
          /\ ret' = Rotate(data["point"], cfg, dr)
          /\ draws' = [draws EXCEPT !["rotate"] = dr]
    /\ pc' = "done"
    /\ UNCHANGED <<op, data, input, cfg, ran, loc, calls>>

\* the i-th if statement of augment
AugmentStep(i) ==
    /\ op = "augment" /\ pc = AugmentPc[i]
    /\ LET key == AugmentOrder[i]
       IN IF key \in DOMAIN cfg
          THEN \E dr \in DrawsFor(key, cfg[key], data["point"]) :
                  LET r == Transform(key, data, cfg[key], dr)
                  IN /\ data' = r.data
                     /\ pc' = IF r.err THEN "KeyError" ELSE AugmentPc[i + 1]
                     /\ ran' = Append(ran, key)
                     /\ draws' = [draws EXCEPT ![key] = dr]
                     /\ ret' = IF ~r.err /\ i = 4 THEN None ELSE ret
          ELSE /\ pc' = AugmentPc[i + 1]
               /\ ret' = IF i = 4 THEN None ELSE ret
               /\ UNCHANGED <<data, ran, draws>>
    /\ UNCHANGED <<op, input, cfg, loc, calls>>

AugmentNormalize == AugmentStep(1)

AugmentRotate == AugmentStep(2)

AugmentScale == AugmentStep(3)

AugmentNoise == AugmentStep(4)

\* ObjectRangeFilter(data, pcd_range)
ObjectRangeFilterCall ==
    /\ op = "ObjectRangeFilter" /\ pc = "start"
    /\ ret' = ObjectRangeFilter(data, cfg.pcd_range)
    /\ pc' = "done"
    /\ UNCHANGED <<op, data, input, cfg, ran, draws, loc, calls>>

\* ObjectSample up to its second loop: the locals and sampled_num_dict
ObjectSampleBegin ==
    /\ op = "ObjectSample" /\ pc = "start"
    /\ loc' = [points |-> data["point"], bboxes |-> data["bbox_objs"], sampled |-> <<>>,
               sampled_num_dict |-> SampledNumDict(data, cfg.sample_dict), k |-> 1]
    /\ pc' = "loop"
    /\ UNCHANGED <<op, data, input, cfg, ret, ran, draws, calls>>

\* one round of the second loop: sampled_num < 0, continue
ObjectSampleSkip ==
    /\ op = "ObjectSample" /\ pc = "loop" /\ loc.k <= Len(loc.sampled_num_dict)
    /\ loc.sampled_num_dict[loc.k].num < 0
    /\ loc' = [loc EXCEPT !.k = @ + 1]
    /\ UNCHANGED <<op, pc, data, input, cfg, ret, ran, draws, calls>>

\* one round of the second loop: db_boxes_dict[class_name] raises KeyError
ObjectSampleKeyError ==
    /\ op = "ObjectSample" /\ pc = "loop" /\ loc.k <= Len(loc.sampled_num_dict)
    /\ loc.sampled_num_dict[loc.k].num >= 0
    /\ loc.sampled_num_dict[loc.k].name \notin DOMAIN cfg.db_boxes_dict
    /\ pc' = "KeyError"
    /\ UNCHANGED <<op, data, input, cfg, ret, ran, draws, loc, calls>>

\* one round of the second loop: sample_class is called and its boxes are added
ObjectSampleClass ==
    /\ op = "ObjectSample" /\ pc = "loop" /\ loc.k <= Len(loc.sampled_num_dict)
    /\ LET class_name == loc.sampled_num_dict[loc.k].name
           sampled_num == loc.sampled_num_dict[loc.k].num
       IN /\ sampled_num >= 0
          /\ class_name \in DOMAIN cfg.db_boxes_dict
          /\ LET existing == SamplerExisting(data, loc.bboxes)
                 pool == cfg.db_boxes_dict[class_name]
             IN \E sampled_cls \in SampleClass(class_name, sampled_num, existing, pool) :
                  LET e == ExtendBoxes(data, loc.bboxes, sampled_cls)
                  IN /\ calls' = Append(calls, [class_name |-> class_name, num |-> sampled_num,
                                                existing |-> existing, pool |-> pool,
                                                result |-> sampled_cls])
                     /\ loc' = [loc EXCEPT !.sampled = @ \o sampled_cls,
                                           !.bboxes = e.bboxes,
                                           !.k = @ + 1]
                     /\ data' = e.data
    /\ UNCHANGED <<op, pc, input, cfg, ret, ran, draws>>

\* after the loop: the collision removal, the merge and the return
ObjectSampleReturn ==
    /\ op = "ObjectSample" /\ pc = "loop" /\ loc.k > Len(loc.sampled_num_dict)
    /\ LET points == IF Len(loc.sampled) # 0
                     THEN MergePoints(SampledPoints(loc.sampled),
                                      RemovePointsInBoxes(loc.points,
                                          CollisionBoxes(loc.sampled, loc.bboxes)))
                     ELSE loc.points
       IN /\ ret' = [point |-> points, bbox_objs |-> loc.bboxes, calib |-> data["calib"]]
          /\ loc' = [loc EXCEPT !.points = points]
    /\ pc' = "done"
    /\ UNCHANGED <<op, data, input, cfg, ran, draws, calls>>

Next ==
    \/ NormalizeCall
    \/ RotateCall
    \/ AugmentNormalize
    \/ AugmentRotate
    \/ AugmentScale
    \/ AugmentNoise
    \/ ObjectRangeFilterCall
    \/ ObjectSampleBegin
    \/ ObjectSampleSkip
    \/ ObjectSampleKeyError
    \/ ObjectSampleClass
    \/ ObjectSampleReturn

Spec == Init /\ [][Next]_vars

(***************************************************************************)
(* Properties.                                                             *)
(***************************************************************************)
CanonicalOrder == <<"normalize", "rotate", "scale", "noise">>

\* data['point'] after the transforms present in cfg, run one after another in
\* the order first, second, third, fourth with the numbers that were drawn
PipelinePoint(first, second, third, fourth) ==
    LET step(key, p) ==
            IF key \notin DOMAIN cfg THEN p
            ELSE Transform(key, Put(input, "point", p), cfg[key], draws[key]).data["point"]
    IN step(fourth, step(third, step(second, step(first, input["point"]))))

\* C1: when augment has finished, data['point'] is the result of normalize,
\* rotate, scale, noise applied in that order, each to the output of the one
\* before, for exactly the keys present in the configuration, and the transforms
\* that ran are exactly those present, in that order.
C1_AugmentOrder ==
    (op = "augment" /\ pc = "done") =>
        /\ data["point"] = PipelinePoint("normalize", "rotate", "scale", "noise")
        /\ ran = SelectSeq(CanonicalOrder, LAMBDA key : key \in DOMAIN cfg)

\* all four transforms ran, and the order mattered for the result
C1_Witness ==
    /\ op = "augment" /\ pc = "done"
    /\ DOMAIN cfg = {"normalize", "rotate", "scale", "noise"}
    /\ data["point"].den # 0
    /\ data["point"] # PipelinePoint("normalize", "scale", "rotate", "noise")
    /\ data["point"] # PipelinePoint("scale", "normalize", "rotate", "noise")

TargetOf(name) == (CHOOSE e \in Range(cfg.sample_dict) : e.name = name).num

CalledClasses == [i \in 1..Len(calls) |-> calls[i].class_name]

\* every box returned by sample_class so far, in call order
SampledSoFar(n) == Flatten([i \in 1..n |-> calls[i].result])

CountOf(boxes, name) == Cardinality({i \in 1..Len(boxes) : boxes[i].label_class = name})

\* C2: every call of sample_class asks for target_count minus the number of
\* boxes of that class in the scene; a class whose target is below its count in
\* the scene gets no call and no new box, and the boxes of the scene stay in
\* the returned list.
C2_RequestedCount ==
    op = "ObjectSample" =>
        /\ \A i \in 1..Len(calls) :
              calls[i].num = TargetOf(calls[i].class_name)
                             - CountOf(input["bbox_objs"], calls[i].class_name)
        /\ \A e \in Range(cfg.sample_dict) :
              e.num < CountOf(input["bbox_objs"], e.name) =>
                  /\ e.name \notin Range(CalledClasses)
                  /\ pc = "done" => CountOf(ret.bbox_objs, e.name)
                                    = CountOf(input["bbox_objs"], e.name)
        /\ pc = "done" =>
              /\ SubSeq(ret.bbox_objs, 1, Len(input["bbox_objs"])) = input["bbox_objs"]
              /\ \A e \in Range(cfg.sample_dict) :
                    e.num >= CountOf(input["bbox_objs"], e.name) =>
                        Cardinality({i \in 1..Len(calls) : calls[i].class_name = e.name}) = 1

\* one class is skipped and another is asked for two more boxes than the one
\* the scene holds
C2_Witness ==
    /\ op = "ObjectSample" /\ pc = "done"
    /\ \E e \in Range(cfg.sample_dict) : e.num < CountOf(input["bbox_objs"], e.name)
    /\ \E i \in 1..Len(calls) :
          /\ calls[i].num = 2
          /\ CountOf(input["bbox_objs"], calls[i].class_name) = 1

\* C3: ObjectSample never returns when a class of the target spec is missing
\* from the donor database.
C3_MissingDonorAlwaysFails ==
    (op = "ObjectSample" /\ pc = "done") =>
        \A e \in Range(cfg.sample_dict) : e.name \in DOMAIN cfg.db_boxes_dict

\* C4: when boxes were sampled, the returned cloud is the donated points
\* followed by original points only; every returned point inside a sampled box
\* is among the donated ones, and the original points returned are exactly
\* those outside every sampled box.
C4_CollisionRemoval ==
    (op = "ObjectSample" /\ pc = "done" /\ SampledSoFar(Len(calls)) # <<>>) =>
        LET sampled == SampledSoFar(Len(calls))
            n == Len(SampledPoints(sampled))
            out == ret.point
        IN /\ n <= Len(out)
           /\ \A i \in 1..Len(out) : InAnyBox(out[i], sampled) => i <= n
           /\ \A i \in 1..n : \E b \in Range(sampled) : out[i] \in Range(b.points_inside_box)
           /\ SubSeq(out, n + 1, Len(out))
                = SelectSeq(input["point"], LAMBDA p : ~InAnyBox(p, sampled))

\* a point of the scene was inside a sampled box and removed, another one was
\* inside a box of the scene only and kept
C4_Witness ==
    /\ op = "ObjectSample" /\ pc = "done" /\ SampledSoFar(Len(calls)) # <<>>
    /\ \E p \in Range(input["point"]) : InAnyBox(p, SampledSoFar(Len(calls)))
    /\ \E p \in Range(input["point"]) :
          /\ ~InAnyBox(p, SampledSoFar(Len(calls)))
          /\ InAnyBox(p, input["bbox_objs"])
          /\ p \in Range(ret.point)

\* C5: the returned sample holds the original boxes followed by the sampled
\* boxes in the order of the target spec, the calib of the input, and the
\* donated points in front of the filtered original points; with no box sampled
\* the points and boxes are the original ones.
C5_ReturnedSample ==
    (op = "ObjectSample" /\ pc = "done") =>
        LET sampled == SampledSoFar(Len(calls))
        IN /\ ret.bbox_objs = input["bbox_objs"] \o sampled
           /\ Len(ret.bbox_objs) = Len(input["bbox_objs"]) + Len(sampled)
           /\ CalledClasses
                = SelectSeq([i \in 1..Len(cfg.sample_dict) |-> cfg.sample_dict[i].name],
                            LAMBDA name : TargetOf(name) >= CountOf(input["bbox_objs"], name))
           /\ ret.calib = input["calib"]
           /\ DOMAIN ret = {"point", "bbox_objs", "calib"}
           /\ IF sampled = <<>>
              THEN ret.point = input["point"] /\ ret.bbox_objs = input["bbox_objs"]
              ELSE ret.point
                     = SampledPoints(sampled)
                       \o SelectSeq(input["point"], LAMBDA p : ~InAnyBox(p, sampled))

\* boxes of two classes were sampled into a scene with boxes and points
C5_Witness ==
    /\ op = "ObjectSample" /\ pc = "done"
    /\ Len(calls) = 2 /\ calls[1].result # <<>> /\ calls[2].result # <<>>
    /\ input["bbox_objs"] # <<>>
    /\ Len(ret.point) > Len(SampledPoints(SampledSoFar(2)))

\* C6: ObjectRangeFilter returns exactly the keys point, bbox_objs and calib;
\* bbox_objs holds, in order, the input boxes in range of the rectangle
\* [x_min, y_min, x_max, y_max] of pcd_range; point and calib are the input's,
\* and the input sample is not modified.
C6_RangeFilter ==
    (op = "ObjectRangeFilter" /\ pc = "done") =>
        LET r == cfg.pcd_range
        IN /\ DOMAIN ret = {"point", "bbox_objs", "calib"}
           /\ ret.bbox_objs
                = SelectSeq(input["bbox_objs"],
                            LAMBDA box : InRangeBev(<<r[1], r[2], r[4], r[5]>>, ToXyzwhlr(box)))
           /\ ret.point = input["point"]
           /\ ret.calib = input["calib"]
           /\ data = input

\* a sample with an extra key, one box kept and one box dropped
C6_Witness ==
    /\ op = "ObjectRangeFilter" /\ pc = "done"
    /\ "label" \in DOMAIN input
    /\ Len(ret.bbox_objs) = 1
    /\ Len(input["bbox_objs"]) = 2

\* C7: when ObjectSample raises KeyError, the caller's sample is as it was
\* before the call and nothing is returned.
C7_FailureLeavesInput ==
    (op = "ObjectSample" /\ pc = "KeyError") => (data = input /\ ret = NoReturn)

\* the lookup failed after boxes of an earlier class had been sampled
C7_Witness ==
    /\ op = "ObjectSample" /\ pc = "KeyError"
    /\ loc.sampled # <<>>
    /\ Len(loc.bboxes) > Len(input["bbox_objs"])

\* C8: normalize raises nothing: without a 'points' key the points are
\* unchanged, and without a 'feat' key, or with a sample whose feat is missing
\* or None, the call returns the sample with its features untouched.
C8_NormalizeSkipsAbsent ==
    (op = "normalize" /\ pc # "start") =>
        /\ "points" \notin DOMAIN cfg => data["point"] = input["point"]
        /\ ("feat" \notin DOMAIN cfg \/ "feat" \notin DOMAIN input \/ IsNone(input["feat"])) =>
              /\ pc = "done"
              /\ ret = data
              /\ Restrict(data, DOMAIN data \ {"point"}) = Restrict(input, DOMAIN input \ {"point"})

\* C9: rotate with no method, or with a method other than 'vertical' and 'all',
\* finishes and returns points equal to its input.
C9_RotateIdentity ==
    (op = "rotate" /\ pc # "start" /\ Get(cfg, "method", "None") \notin {"vertical", "all"}) =>
        /\ pc = "done"
        /\ ret = input["point"]
        /\ data = input

\* rotate returned under an unrecognized method
C9_Witness ==
    /\ op = "rotate" /\ pc = "done"
    /\ "method" \in DOMAIN cfg /\ cfg["method"] = "horizontal"
    /\ \E i \in 1..Len(ret.pts) : \E j \in 1..3 : ret.pts[i][j] # 0

\* C10: the existing-boxes argument of the k-th call of sample_class is the
\* scene's original boxes followed by the boxes returned by the calls before it.
C10_SamplerSeesEarlierBoxes ==
    op = "ObjectSample" =>
        \A k \in 1..Len(calls) :
            calls[k].existing = input["bbox_objs"] \o SampledSoFar(k - 1)

\* a second class was sampled after boxes of a first class had been added
C10_Witness ==
    /\ op = "ObjectSample"
    /\ Len(calls) = 2
    /\ calls[1].result # <<>>
    /\ Len(calls[2].existing) > Len(input["bbox_objs"])

====
